---- MODULE Spec2Model ----
(***************************************************************************)
(* Model of the Lox scanner (src/scanner/scanner.rs), the diagnostic       *)
(* reporter (src/helper/helper.rs) and the driver (src/main.rs).  Spec is  *)
(* one call of run(source); SpecMain is the whole process from main.       *)
(*                                                                         *)
(* Characters are one-character strings; the source buffer, lexemes and    *)
(* literal values are sequences of characters.  `start` and `current` keep *)
(* their Rust (0-based) values, so source[i] of the code is                *)
(* s.source[i + 1] here and the slice source[a..b] is SubSeq(src, a+1, b). *)
(***************************************************************************)
EXTENDS Integers, Sequences, FiniteSets, TLC

VARIABLES scanner, pc, spans, output,
          args, file, stdin, nread, runs, out0, exit_status

\* the value of exit_status while the process has not exited
Running == -1

\* the state of the driver (main.rs): the number of command-line arguments
\* (program name included), the contents of the script file, the lines of
\* standard input and how many were read, the number of calls of run, the
\* length of the output when the current call of run began, and the exit
\* status of the process
driver == <<args, file, stdin, nread, runs, out0, exit_status>>

vars == <<scanner, pc, spans, output, args, file, stdin, nread, runs, out0,
          exit_status>>

(***************************************************************************)
(* Bounds                                                                  *)
(***************************************************************************)
MaxLen == 4

MaxLines == 2

(***************************************************************************)
(* Character classes (char::is_digit(10), char::is_alphabetic,             *)
(* char::is_alphanumeric restricted to the characters used here)           *)
(***************************************************************************)
Digits == {"0", "1", "2", "3", "4", "5", "6", "7", "8", "9"}

Letters == {"a", "b", "c", "d", "e", "f", "g", "h", "i", "j", "k", "l", "m",
            "n", "o", "p", "q", "r", "s", "t", "u", "v", "w", "x", "y", "z",
            "H", "W"}

NUL == "\\0"

is_digit(c) == c \in Digits

is_alphabetic(c) == c \in Letters

is_alphanumeric(c) == c \in Letters \cup Digits

is_alpha(c) == is_alphabetic(c) \/ c = "_"

(***************************************************************************)
(* Tokens, literals, diagnostics                                           *)
(***************************************************************************)
None == [tag |-> "None", value |-> <<>>]

LiteralIdentifier(v) == [tag |-> "Identifier", value |-> v]

LiteralString(v) == [tag |-> "String", value |-> v]

LiteralNumber(v) == [tag |-> "Number", value |-> v]

Token(tt, lex, lit, ln) ==
    [token_type |-> tt, lexeme |-> lex, literal |-> lit, line |-> ln]

Error_new(ln, reason) == [line |-> ln, reason |-> reason]

keywords ==
    (<<"a", "n", "d">> :> "And")
    @@ (<<"c", "l", "a", "s", "s">> :> "Class")
    @@ (<<"e", "l", "s", "e">> :> "Else")
    @@ (<<"f", "a", "l", "s", "e">> :> "False")
    @@ (<<"f", "o", "r">> :> "For")
    @@ (<<"f", "u", "n">> :> "Fun")
    @@ (<<"i", "f">> :> "If")
    @@ (<<"n", "i", "l">> :> "Nil")
    @@ (<<"o", "r">> :> "Or")
    @@ (<<"p", "r", "i", "n", "t">> :> "Print")
    @@ (<<"r", "e", "t", "u", "r", "n">> :> "Return")
    @@ (<<"s", "u", "p", "e", "r">> :> "Super")
    @@ (<<"t", "h", "i", "s">> :> "This")
    @@ (<<"t", "r", "u", "e">> :> "True")
    @@ (<<"v", "a", "r">> :> "Var")
    @@ (<<"w", "h", "i", "l", "e">> :> "While")

SingleCharTokens ==
    ("(" :> "LeftParen") @@ (")" :> "RightParen") @@ ("{" :> "LeftBrace")
    @@ ("}" :> "RightBrace") @@ ("," :> "Comma") @@ ("." :> "Dot")
    @@ ("-" :> "Minus") @@ ("+" :> "Plus") @@ (";" :> "SemiColon")
    @@ ("*" :> "Star")

OneCharOperator ==
    ("!" :> "Bang") @@ ("=" :> "Equal") @@ ("<" :> "Less") @@ (">" :> "Greater")

TwoCharOperator ==
    ("!" :> "BangEqual") @@ ("=" :> "EqualEqual") @@ ("<" :> "LessEqual")
    @@ (">" :> "GreaterEqual")

(***************************************************************************)
(* Scanner::new                                                            *)
(***************************************************************************)
Scanner_new(src) ==
    [source |-> src, tokens |-> <<>>, start |-> 0, current |-> 0, line |-> 1,
     errors |-> <<>>]

(***************************************************************************)
(* Cursor helpers                                                          *)
(***************************************************************************)
is_at_end(s) == s.current >= Len(s.source)

\* advance indexes source[current] without a bounds test of its own: the
\* index operation panics when current >= source.len().
advance_panics(s) == s.current >= Len(s.source)

advance(s) == [s EXCEPT !.current = @ + 1]

peek(s) == IF is_at_end(s) THEN NUL ELSE s.source[s.current + 1]

peek_next(s) ==
    IF (s.current + 1) >= Len(s.source) THEN NUL ELSE s.source[s.current + 2]

\* matches reporting the match without consuming the character
matches_no_consume(s, expected) ==
    IF is_at_end(s) \/ s.source[s.current + 1] # expected
    THEN [result |-> FALSE, scanner |-> s]
    ELSE [result |-> TRUE, scanner |-> s]

matches(s, expected) ==
    IF is_at_end(s) \/ s.source[s.current + 1] # expected
    THEN [result |-> FALSE, scanner |-> s]
    ELSE [result |-> TRUE, scanner |-> [s EXCEPT !.current = @ + 1]]

add_token_literal(s, token, literal) ==
    [s EXCEPT !.tokens =
        Append(@, Token(token, SubSeq(s.source, s.start + 1, s.current),
                        literal, s.line))]

add_token(s, token) == add_token_literal(s, token, None)

(***************************************************************************)
(* f64 parsing of a digits[.digits] text: the value is kept as its         *)
(* canonical decimal text (no leading zeros in the integer part, no        *)
(* trailing zeros in the fraction, no trailing point).                     *)
(***************************************************************************)
RECURSIVE StripLeadingZeros(_)
StripLeadingZeros(t) ==
    IF Len(t) > 1 /\ t[1] = "0" /\ t[2] # "." THEN StripLeadingZeros(Tail(t))
    ELSE t

RECURSIVE StripTrailingZeros(_)
StripTrailingZeros(t) ==
    IF \E i \in 1..Len(t) : t[i] = "."
    THEN IF t[Len(t)] = "0" \/ t[Len(t)] = "."
         THEN IF t[Len(t)] = "."
              THEN SubSeq(t, 1, Len(t) - 1)
              ELSE StripTrailingZeros(SubSeq(t, 1, Len(t) - 1))
         ELSE t
    ELSE t

parse_f64(t) == StripTrailingZeros(StripLeadingZeros(t))

(***************************************************************************)
(* One step of the scan: each operator takes the Scanner and returns the   *)
(* Scanner after the step together with the next control position.         *)
(***************************************************************************)
Ret(s, p) == [scanner |-> s, pc |-> p]

\* the loop of scan_tokens setting start one past the cursor
scan_tokens_loop_past(s) ==
    Ret([s EXCEPT !.start = s.current + 1], "scan_token")

\* scan_tokens, the loop test and `self.start = self.current`
scan_tokens_loop(s) == Ret([s EXCEPT !.start = s.current], "scan_token")

\* scan_tokens pushing the EOF token through add_token, lexeme included
scan_tokens_return_lexeme(s) == Ret(add_token(s, "EOF"), "returned")

\* scan_tokens after the loop: push EOF and return errors.clone()
scan_tokens_return(s) ==
    Ret([s EXCEPT !.tokens = Append(@, Token("EOF", <<>>, None, s.line))],
        "returned")

\* the diagnostic carrying a 0-based line
unexpected_character_line0(s) ==
    [s EXCEPT !.errors =
        Append(@, Error_new(s.line - 1, "Unexpected Character"))]

\* the `_` arm's last branch
unexpected_character(s) ==
    [s EXCEPT !.errors =
        Append(@, Error_new(s.line, "Unexpected Character"))]

\* the no-op arm without the letter:  ' ' | '\r'
is_skipped_no_t(c) == c \in {" ", "\r"}

\* the no-op arm with the tab character:  ' ' | '\r' | '\t'
is_skipped_tab(c) == c \in {" ", "\r", "\t"}

\* the characters of the no-op arm  ' ' | '\r' | 't'
is_skipped(c) == c \in {" ", "\r", "t"}

scan_token(s0) ==
    LET c == s0.source[s0.current + 1]
        s == advance(s0)
    IN  CASE c \in DOMAIN SingleCharTokens ->
                Ret(add_token(s, SingleCharTokens[c]), "scan_tokens")
          [] c \in DOMAIN OneCharOperator ->
                LET m == matches(s, "=")
                IN  Ret(add_token(m.scanner,
                                  IF m.result THEN TwoCharOperator[c]
                                  ELSE OneCharOperator[c]),
                        "scan_tokens")
          [] c = "/" ->
                LET m == matches(s, "/")
                IN  IF m.result THEN Ret(m.scanner, "comment")
                    ELSE Ret(add_token(m.scanner, "Slash"), "scan_tokens")
          [] is_skipped(c) -> Ret(s, "scan_tokens")
          [] c = "\n" -> Ret([s EXCEPT !.line = @ + 1], "scan_tokens")
          [] c = "\"" -> Ret(s, "string")
          [] OTHER ->
                IF is_digit(c) THEN Ret(s, "number")
                ELSE IF is_alpha(c) THEN Ret(s, "identifier")
                ELSE Ret(unexpected_character(s), "scan_tokens")

\* the comment loop without its test for the newline
comment_through_newline(s) ==
    IF ~is_at_end(s) THEN Ret(advance(s), "comment")
    ELSE Ret(s, "scan_tokens")

\* one test of the comment loop  while peek() != '\n' && !is_at_end()
comment(s) ==
    IF peek(s) # "\n" /\ ~is_at_end(s) THEN Ret(advance(s), "comment")
    ELSE Ret(s, "scan_tokens")

\* the loop of string() without its line count
string_loop_no_line(s) ==
    IF peek(s) # "\"" /\ ~is_at_end(s) THEN Ret(advance(s), "string")
    ELSE Ret(s, "string_end")

\* one test of the loop of string()
string_loop(s) ==
    IF peek(s) # "\"" /\ ~is_at_end(s)
    THEN Ret(advance(IF peek(s) = "\n" THEN [s EXCEPT !.line = @ + 1] ELSE s),
             "string")
    ELSE Ret(s, "string_end")

\* the literal sliced with the quotes, source[start..current]
string_token_with_quotes(s) ==
    add_token_literal(s, "String",
        LiteralString(SubSeq(s.source, s.start + 1, s.current)))

\* string() after its loop: the closing advance, the literal and the token
string_token(s) ==
    add_token_literal(s, "String",
        LiteralString(SubSeq(s.source, s.start + 2, s.current - 1)))

string_end(s) ==
    IF advance_panics(s) THEN Ret(s, "panic")
    ELSE Ret(string_token(advance(s)), "scan_tokens")

number_token(s) ==
    add_token_literal(s, "Number",
        LiteralNumber(parse_f64(SubSeq(s.source, s.start + 1, s.current))))

\* number() consuming the '.' without looking at the character after it
number_dot_unchecked(s) ==
    IF is_digit(peek(s)) THEN Ret(advance(s), "number")
    ELSE IF peek(s) = "."
         THEN Ret(advance(s), "fraction")
         ELSE Ret(number_token(s), "scan_tokens")

\* one test of the first digit loop of number(), then the test for '.'
number(s) ==
    IF is_digit(peek(s)) THEN Ret(advance(s), "number")
    ELSE IF peek(s) = "." /\ is_digit(peek_next(s))
         THEN Ret(advance(s), "fraction")
         ELSE Ret(number_token(s), "scan_tokens")

\* one test of the second digit loop of number()
fraction(s) ==
    IF is_digit(peek(s)) THEN Ret(advance(s), "fraction")
    ELSE Ret(number_token(s), "scan_tokens")

identifier_continues(c) == is_alphanumeric(c)

identifier_token(s) ==
    LET value == SubSeq(s.source, s.start + 1, s.current)
    IN  IF value \in DOMAIN keywords
        THEN add_token_literal(s, keywords[value], LiteralIdentifier(value))
        ELSE add_token(s, "Identifier")

\* one test of the loop of identifier(), then the keyword lookup
identifier(s) ==
    IF identifier_continues(peek(s)) THEN Ret(advance(s), "identifier")
    ELSE Ret(identifier_token(s), "scan_tokens")

(***************************************************************************)
(* report_errors                                                           *)
(***************************************************************************)
DigitChar(d) ==
    CASE d = 0 -> "0" [] d = 1 -> "1" [] d = 2 -> "2" [] d = 3 -> "3"
      [] d = 4 -> "4" [] d = 5 -> "5" [] d = 6 -> "6" [] d = 7 -> "7"
      [] d = 8 -> "8" [] d = 9 -> "9"

\* Display of an unsigned integer
RECURSIVE Display(_)
Display(n) ==
    IF n < 10 THEN DigitChar(n) ELSE Display(n \div 10) \o DigitChar(n % 10)

\* the format string without the space before the bracket
report_line_no_space(error) ==
    "[Line " \o Display(error.line) \o "] Error: " \o error.reason

\* println!("[Line {} ] Error: {}", error.line, error.reason)
report_line(error) ==
    "[Line " \o Display(error.line) \o " ] Error: " \o error.reason

(***************************************************************************)
(* Sources                                                                 *)
(***************************************************************************)
Alphabet == {"a", "t", "_", "1", ".", "\"", "\n", "/", "=", "$", " "}

BoundedSources == UNION {[1..n -> Alphabet] : n \in 0..MaxLen}

TestSources ==
    { <<"v", "a", "r", " ", "$", "t", "e", "s", "t", " ", "=", " ",
        "1", "2", "3", "4">>,
      <<"\"", "H", "e", "l", "l", "o", " ", "\n", " ", "W", "o", "r", "l",
        "d", "\"">>,
      <<"1", "1", ".", "2", "3", "4">>,
      <<"1", "0">>,
      <<"h", "e", "l", "l", "o">>,
      <<"1", ".">>,
      <<"0", "1", ".", "5", "0">>,
      <<"(", "a", "<", "=", "1", ")", "{", "}", ";">>,
      <<"!", "=", ">", "\t", "\r", "*", "-", "+", ",">>,
      <<"\n", "\n", "\n", "\n", "\n", "\n", "\n", "\n", "\n", "$">>,
      <<"t", "e", "s", "t">>,
      <<"!">>,
      <<"<", "<", "=">>,
      <<">", "=", "=">>,
      <<"!", "!", "=", "=">>,
      <<"=", "=", "=">>,
      <<"1", ".", "2", ".", "3">>,
      <<"1", ".", ".", "2">>,
      <<".", "1">>,
      <<"1", "2", ".", "a">>,
      <<"\t", "a">>,
      <<"\r", " ", "\n">>,
      <<"\t", "i", "f", " ", "\r", "\n", "\t", "\t", "x">>,
      <<"/", "/", "t", "\"", "$", "\n", "t">> }

\* the source of tests::scan_tokens_test
ScanTokensTestSource ==
    <<"\n", " ", " ", " ", " ", " ", " ", " ", " ", "v", "a", "r", " ",
        "t", "e", "s", "t", " ", "=", " ", "1", "2", "3", "4", ";", "\n",
        " ", " ", " ", " ", " ", " ", " ", " ", "i", "f", " ", "(", "t",
        "e", "s", "t", " ", "<", "=", " ", "1", "0", ")", " ", "\n", " ",
        " ", " ", " ", " ", " ", " ", " ", "{", "\n", " ", " ", " ", " ",
        " ", " ", " ", " ", " ", " ", " ", " ", "t", "e", "s", "t", " ",
        "=", " ", "t", "e", "s", "t", " ", "+", " ", "1", "0", ";", "\n",
        " ", " ", " ", " ", " ", " ", " ", " ", "}", "\n", " ", " ", " ",
        " ", " ", " ", " ", " ">>

Sources ==
    BoundedSources \cup DOMAIN keywords \cup TestSources
        \cup {ScanTokensTestSource}

(***************************************************************************)
(* The state machine: run(source) of main.rs                               *)
(***************************************************************************)
Init ==
    /\ \E src \in Sources : scanner = Scanner_new(src)
    /\ pc = "scan_tokens"
    /\ spans = <<>>
    /\ output = <<>>
    /\ args = 2
    /\ file = [readable |-> TRUE, contents |-> scanner.source]
    /\ stdin = <<>>
    /\ nread = 0
    /\ runs = 1
    /\ out0 = 0
    /\ exit_status = Running

\* spans records, for every completed call of scan_token, the values of
\* start, current and line at its end and the index of the token and of
\* the diagnostic it pushed (0 when it pushed none).
Apply(n) ==
    /\ scanner' = n.scanner
    /\ pc' = n.pc
    /\ spans' =
         IF n.pc = "scan_tokens"
         THEN Append(spans,
                [from |-> n.scanner.start, to |-> n.scanner.current,
                 line |-> n.scanner.line,
                 tok |-> IF Len(n.scanner.tokens) > Len(scanner.tokens)
                         THEN Len(n.scanner.tokens) ELSE 0,
                 err |-> IF Len(n.scanner.errors) > Len(scanner.errors)
                         THEN Len(n.scanner.errors) ELSE 0])
         ELSE spans
    /\ UNCHANGED <<output, driver>>

ScanTokensLoop ==
    /\ pc = "scan_tokens"
    /\ ~is_at_end(scanner)
    /\ scanner' = scan_tokens_loop(scanner).scanner
    /\ pc' = scan_tokens_loop(scanner).pc
    /\ UNCHANGED <<spans, output, driver>>

ScanTokensReturn ==
    /\ pc = "scan_tokens"
    /\ is_at_end(scanner)
    /\ Apply(scan_tokens_return(scanner))

ScanToken == pc = "scan_token" /\ Apply(scan_token(scanner))

Comment == pc = "comment" /\ Apply(comment(scanner))

StringLoop == pc = "string" /\ Apply(string_loop(scanner))

StringEnd == pc = "string_end" /\ Apply(string_end(scanner))

Number == pc = "number" /\ Apply(number(scanner))

Fraction == pc = "fraction" /\ Apply(fraction(scanner))

Identifier == pc = "identifier" /\ Apply(identifier(scanner))

\* report_errors: one iteration of `for error in errors`
ReportError ==
    /\ pc = "returned"
    /\ Len(output) - out0 < Len(scanner.errors)
    /\ output' =
         Append(output, report_line(scanner.errors[Len(output) - out0 + 1]))
    /\ UNCHANGED <<scanner, pc, spans, driver>>

\* the end of report_errors and `return errors.len() != 0`
RunReturn ==
    /\ pc = "returned"
    /\ Len(output) - out0 >= Len(scanner.errors)
    /\ pc' = "run_done"
    /\ UNCHANGED <<scanner, spans, output, driver>>

Next ==
    \/ ScanTokensLoop
    \/ ScanTokensReturn
    \/ ScanToken
    \/ Comment
    \/ StringLoop
    \/ StringEnd
    \/ Number
    \/ Fraction
    \/ Identifier
    \/ ReportError
    \/ RunReturn

Spec == Init /\ [][Next]_vars

TypeOK ==
    /\ pc \in {"scan_tokens", "scan_token", "comment", "string", "string_end",
               "number", "fraction", "identifier", "returned", "panic",
               "run_done", "main", "run_file", "run_prompt", "exited"}
    /\ scanner.start \in Nat
    /\ scanner.current \in Nat
    /\ scanner.line \in Nat

(***************************************************************************)
(* The driver: main, run_file and run_prompt of main.rs around run         *)
(***************************************************************************)
\* the lines read_line can return: each ends with its newline, except a
\* last line cut by the end of input
PromptLines ==
    { <<"a", "\n">>, <<"$", "\n">>, <<"\"", "\n">>,
      <<"\"", "a", "\"", "\n">>, <<"\n">>, <<"$">> }

EndsWithNewline(l) == Len(l) > 0 /\ l[Len(l)] = "\n"

Stdins ==
    {in \in UNION {[1..n -> PromptLines] : n \in 0..MaxLines} :
        \A i \in 1..(Len(in) - 1) : EndsWithNewline(in[i])}

\* fs::read_to_string either fails or gives the contents of the file
Files ==
    {[readable |-> TRUE, contents |-> src] : src \in Sources}
        \cup {[readable |-> FALSE, contents |-> <<>>]}

NoFile == [readable |-> FALSE, contents |-> <<>>]

\* the exit status of a process whose main thread panicked
PanicStatus == 101

InitMain ==
    /\ args \in 1..3
    /\ file \in (IF args = 2 THEN Files ELSE {NoFile})
    /\ stdin \in (IF args = 1 THEN Stdins ELSE {<<>>})
    /\ scanner = Scanner_new(<<>>)
    /\ pc = "main"
    /\ spans = <<>>
    /\ output = <<>>
    /\ nread = 0
    /\ runs = 0
    /\ out0 = 0
    /\ exit_status = Running

\* run: Scanner::new(&source), followed by the scan and the report
main_run(source) ==
    /\ scanner' = Scanner_new(source)
    /\ spans' = <<>>
    /\ pc' = "scan_tokens"
    /\ runs' = runs + 1

\* main with more than one source argument
MainUsage ==
    /\ pc = "main"
    /\ args > 2
    /\ output' = Append(output, "Usage: lox [script]")
    /\ exit_status' = 64
    /\ pc' = "exited"
    /\ UNCHANGED <<scanner, spans, args, file, stdin, nread, runs, out0>>

MainFile ==
    /\ pc = "main"
    /\ ~(args > 2)
    /\ args = 2
    /\ pc' = "run_file"
    /\ UNCHANGED <<scanner, spans, output, driver>>

MainPrompt ==
    /\ pc = "main"
    /\ ~(args > 2)
    /\ args # 2
    /\ pc' = "run_prompt"
    /\ UNCHANGED <<scanner, spans, output, driver>>

\* run_file: read_to_string(..).expect(..) fails
RunFileUnreadable ==
    /\ pc = "run_file"
    /\ ~file.readable
    /\ pc' = "panic"
    /\ UNCHANGED <<scanner, spans, output, driver>>

\* run_file: the call run(contents)
RunFile ==
    /\ pc = "run_file"
    /\ file.readable
    /\ main_run(file.contents)
    /\ out0' = Len(output)
    /\ UNCHANGED <<output, args, file, stdin, nread, exit_status>>

\* run_file after run: process::exit(65) if has_errors, else main returns
RunFileExit ==
    /\ pc = "run_done"
    /\ args = 2
    /\ exit_status' = IF Len(scanner.errors) # 0 THEN 65 ELSE 0
    /\ pc' = "exited"
    /\ UNCHANGED <<scanner, spans, output, args, file, stdin, nread, runs,
                   out0>>

\* run_prompt: the prompt, a line read, and the call run(line)
PromptLine ==
    /\ pc = "run_prompt"
    /\ nread < Len(stdin)
    /\ main_run(stdin[nread + 1])
    /\ nread' = nread + 1
    /\ output' = Append(output, "> ")
    /\ out0' = Len(output) + 1
    /\ UNCHANGED <<args, file, stdin, exit_status>>

\* run_prompt: the prompt, read_line gives 0 bytes, break, main returns
PromptEnd ==
    /\ pc = "run_prompt"
    /\ nread >= Len(stdin)
    /\ output' = Append(output, "> ")
    /\ exit_status' = 0
    /\ pc' = "exited"
    /\ UNCHANGED <<scanner, spans, args, file, stdin, nread, runs, out0>>

\* run_prompt after run: the next iteration of the loop
PromptLoop ==
    /\ pc = "run_done"
    /\ args # 2
    /\ pc' = "run_prompt"
    /\ UNCHANGED <<scanner, spans, output, driver>>

\* a panic unwinds main and ends the process
Panicked ==
    /\ pc = "panic"
    /\ exit_status' = PanicStatus
    /\ pc' = "exited"
    /\ UNCHANGED <<scanner, spans, output, args, file, stdin, nread, runs,
                   out0>>

NextMain ==
    \/ Next
    \/ MainUsage
    \/ MainFile
    \/ MainPrompt
    \/ RunFileUnreadable
    \/ RunFile
    \/ RunFileExit
    \/ PromptLine
    \/ PromptEnd
    \/ PromptLoop
    \/ Panicked

SpecMain == InitMain /\ [][NextMain]_vars

(***************************************************************************)
(* scan_tokens as a whole: the steps above iterated from a Scanner until   *)
(* scan_tokens returns or panics.                                          *)
(***************************************************************************)
Step(s, p) ==
    CASE p = "scan_tokens" ->
            IF is_at_end(s) THEN scan_tokens_return(s) ELSE scan_tokens_loop(s)
      [] p = "scan_token" -> scan_token(s)
      [] p = "comment" -> comment(s)
      [] p = "string" -> string_loop(s)
      [] p = "string_end" -> string_end(s)
      [] p = "number" -> number(s)
      [] p = "fraction" -> fraction(s)
      [] p = "identifier" -> identifier(s)

RECURSIVE Run(_, _)
Run(s, p) ==
    IF p \in {"returned", "panic"} THEN Ret(s, p)
    ELSE LET n == Step(s, p) IN Run(n.scanner, n.pc)

scan_tokens(src) == Run(Scanner_new(src), "scan_tokens")

(***************************************************************************)
(* Vocabulary of the properties                                            *)
(***************************************************************************)
Returned == pc \in {"returned", "run_done"}

\* number of newline characters in src[0..k)
NewlinesBefore(src, k) == Cardinality({i \in 1..k : src[i] = "\n"})

HasNewline(t) == \E i \in 1..Len(t) : t[i] = "\n"

SpanIds == 1..Len(spans)

TokenSpans == {i \in SpanIds : spans[i].tok # 0}

TokenOf(i) == scanner.tokens[spans[i].tok]

\* the character at which the scan step of span i was dispatched
DispatchChar(i) == scanner.source[spans[i].from + 1]

(***************************************************************************)
(* C1.  For every source, scan_tokens never raises a fatal error: the scan *)
(* never panics, the cursor never passes the end of the buffer, every      *)
(* scan_token step consumes at least one character, and when scan_tokens   *)
(* has returned the cursor is at the end of the buffer.                    *)
(***************************************************************************)
C1_NeverFatal ==
    /\ pc # "panic"
    /\ scanner.current <= Len(scanner.source)
    /\ \A i \in SpanIds : spans[i].from < spans[i].to
    /\ Returned => scanner.current >= Len(scanner.source)

(***************************************************************************)
(* C2.  Whenever scan_tokens has returned, the token sequence is           *)
(* non-empty, its last element is an EOF token with empty lexeme and no    *)
(* literal, no earlier element is an EOF token, and the empty source       *)
(* yields exactly [EOF] and no diagnostics.                                *)
(***************************************************************************)
C2_ExactlyOneEOF ==
    Returned =>
        LET n == Len(scanner.tokens)
        IN  /\ n >= 1
            /\ scanner.tokens[n].token_type = "EOF"
            /\ scanner.tokens[n].lexeme = <<>>
            /\ scanner.tokens[n].literal = None
            /\ \A i \in 1..(n - 1) : scanner.tokens[i].token_type # "EOF"
            /\ scanner.source = <<>> =>
                /\ scanner.tokens = <<Token("EOF", <<>>, None, 1)>>
                /\ scanner.errors = <<>>

C2_Witness ==
    /\ pc = "returned"
    /\ Len(scanner.tokens) >= 3
    /\ scanner.start > 0

(***************************************************************************)
(* C3.  As claimed: the recorded line of every token equals 1 plus the     *)
(* number of newline characters in the source strictly before the position *)
(* where the token began (the end of the buffer for the EOF token).        *)
(***************************************************************************)
C3_LineOfTokenStart ==
    /\ \A i \in TokenSpans :
          TokenOf(i).line = 1 + NewlinesBefore(scanner.source, spans[i].from)
    /\ Returned =>
          scanner.tokens[Len(scanner.tokens)].line
              = 1 + NewlinesBefore(scanner.source, Len(scanner.source))

(***************************************************************************)
(* C3, amended.  The recorded line of every token equals 1 plus the number *)
(* of newline characters in the source strictly before the position where  *)
(* the token ended (current when it was pushed); that is the line where    *)
(* the token began for every token whose lexeme contains no newline, that  *)
(* is for every token but a String token that spans several lines.         *)
(***************************************************************************)
C3_LineOfTokenEnd ==
    /\ \A i \in TokenSpans :
          /\ TokenOf(i).line = 1 + NewlinesBefore(scanner.source, spans[i].to)
          /\ ~HasNewline(TokenOf(i).lexeme) =>
                TokenOf(i).line
                    = 1 + NewlinesBefore(scanner.source, spans[i].from)
          /\ HasNewline(TokenOf(i).lexeme) => TokenOf(i).token_type = "String"
    /\ Returned =>
          scanner.tokens[Len(scanner.tokens)].line
              = 1 + NewlinesBefore(scanner.source, Len(scanner.source))

C3_Witness ==
    /\ Returned
    /\ \E i \in TokenSpans :
          /\ TokenOf(i).token_type = "String"
          /\ HasNewline(TokenOf(i).lexeme)
          /\ TokenOf(i).line > 1 + NewlinesBefore(scanner.source, spans[i].from)

(***************************************************************************)
(* C4.  Scanning a source that is exactly the text of a keyword-table      *)
(* entry yields exactly one token before EOF: its kind is the mapped       *)
(* keyword kind, its lexeme the text and its literal Identifier(text).     *)
(***************************************************************************)
C4_KeywordAlone ==
    (Returned /\ scanner.source \in DOMAIN keywords) =>
        scanner.tokens =
            << Token(keywords[scanner.source], scanner.source,
                     LiteralIdentifier(scanner.source), 1),
               Token("EOF", <<>>, None, 1) >>

(***************************************************************************)
(* C5.  Identifier scanning consumes the maximal run of alphanumeric       *)
(* characters and underscores: the token pushed by identifier() has the    *)
(* whole run that starts where the scan began as its lexeme, and when the  *)
(* run is not in the keyword table its kind is Identifier with no literal. *)
(***************************************************************************)
IsWordChar(c) == is_alphanumeric(c) \/ c = "_"

\* the end (exclusive, 0-based) of the maximal run of word characters that
\* starts at position from
MaximalRunEnd(src, from) ==
    CHOOSE k \in from..Len(src) :
        /\ \A j \in (from + 1)..k : IsWordChar(src[j])
        /\ k < Len(src) => ~IsWordChar(src[k + 1])

IdentifierKinds == {"Identifier"} \cup {keywords[k] : k \in DOMAIN keywords}

C5_MaximalRun ==
    \A i \in TokenSpans :
        TokenOf(i).token_type \in IdentifierKinds =>
            LET run == SubSeq(scanner.source, spans[i].from + 1,
                              MaximalRunEnd(scanner.source, spans[i].from))
            IN  /\ TokenOf(i).lexeme = run
                /\ run \notin DOMAIN keywords =>
                      /\ TokenOf(i).token_type = "Identifier"
                      /\ TokenOf(i).literal = None

(***************************************************************************)
(* C6.  A character reached at dispatch that belongs to no recognized      *)
(* class pushes no token and exactly one diagnostic {current line,         *)
(* "Unexpected Character"}, and the scan resumes at the next character;    *)
(* diagnostics are pushed for these characters only, in the order the      *)
(* characters were met; the outcome of the scan (returned or not, and the  *)
(* token sequence) is what it would be had the character been a space; and *)
(* `var $test = 1234` yields exactly one diagnostic.                       *)
(***************************************************************************)
IsUnrecognized(c) ==
    /\ c \notin DOMAIN SingleCharTokens
    /\ c \notin DOMAIN OneCharOperator
    /\ c \notin {"/", " ", "\r", "t", "\n", "\""}
    /\ c \notin Digits
    /\ c \notin Letters \cup {"_"}

UnrecognizedSpans == {i \in SpanIds : IsUnrecognized(DispatchChar(i))}

LineBeforeSpan(i) == IF i = 1 THEN 1 ELSE spans[i - 1].line

VarDollarTest ==
    <<"v", "a", "r", " ", "$", "t", "e", "s", "t", " ", "=", " ",
      "1", "2", "3", "4">>

C6_UnexpectedCharacter ==
    /\ \A i \in UnrecognizedSpans :
          /\ spans[i].tok = 0
          /\ spans[i].err # 0
          /\ spans[i].to = spans[i].from + 1
          /\ spans[i].line = LineBeforeSpan(i)
          /\ scanner.errors[spans[i].err] =
                [line |-> LineBeforeSpan(i), reason |-> "Unexpected Character"]
          /\ scanner.errors[spans[i].err].line =
                1 + NewlinesBefore(scanner.source, spans[i].from)
    /\ \A i \in SpanIds : spans[i].err # 0 => i \in UnrecognizedSpans
    /\ Len(scanner.errors) = Cardinality(UnrecognizedSpans)
    /\ \A i, j \in UnrecognizedSpans : i < j => spans[i].err < spans[j].err
    /\ pc \in {"returned", "panic"} =>
          \A i \in UnrecognizedSpans :
              LET other == scan_tokens([scanner.source EXCEPT
                                           ![spans[i].from + 1] = " "])
              IN  /\ other.pc = pc
                  /\ other.scanner.tokens = scanner.tokens
    /\ (Returned /\ scanner.source = VarDollarTest) =>
          Len(scanner.errors) = 1

C6_Witness ==
    /\ pc = "returned"
    /\ Len(scanner.errors) >= 2
    /\ Len(scanner.tokens) >= 2
    /\ scanner.errors[Len(scanner.errors)].line > 1

(***************************************************************************)
(* C7.  A string literal that has a closing quote yields exactly one       *)
(* String token: its lexeme runs from the opening to the closing quote     *)
(* inclusive, its literal is the exact sequence of characters between the  *)
(* two quotes, each embedded newline increments the line counter, and the  *)
(* recorded line is the line of the closing quote (2 for the string        *)
(* "Hello \n World" opened on line 1).                                     *)
(***************************************************************************)
HelloWorld ==
    <<"\"", "H", "e", "l", "l", "o", " ", "\n", " ", "W", "o", "r", "l",
      "d", "\"">>

StringSpans == {i \in SpanIds : DispatchChar(i) = "\""}

C7_StringLiteral ==
    /\ \A i \in StringSpans :
          LET from == spans[i].from
              to == spans[i].to
              body == SubSeq(scanner.source, from + 2, to - 1)
          IN  /\ spans[i].tok # 0
              /\ spans[i].err = 0
              /\ to >= from + 2
              /\ scanner.source[to] = "\""
              /\ \A k \in 1..Len(body) : body[k] # "\""
              /\ TokenOf(i) =
                    Token("String", SubSeq(scanner.source, from + 1, to),
                          LiteralString(body),
                          1 + NewlinesBefore(scanner.source, to - 1))
              /\ TokenOf(i).line =
                    LineBeforeSpan(i) + NewlinesBefore(body, Len(body))
              /\ spans[i].line = TokenOf(i).line
    /\ (Returned /\ scanner.source = HelloWorld) =>
          scanner.tokens =
              << Token("String", HelloWorld,
                       LiteralString(SubSeq(HelloWorld, 2, 14)), 2),
                 Token("EOF", <<>>, None, 2) >>

C7_Witness ==
    /\ pc = "returned"
    /\ scanner.source = HelloWorld
    /\ Len(scanner.tokens) = 2
    /\ scanner.tokens[1].line = 2

(***************************************************************************)
(* C8.  When the end of the buffer is reached while scanning a string      *)
(* literal (an opening quote with no closing quote), the scanner still     *)
(* pushes a String token built from what was consumed, pushes no           *)
(* diagnostic for it, and the scan finishes normally with the EOF token.   *)
(***************************************************************************)
\* the last scan step began at a quote and no quote follows it
UnterminatedString ==
    /\ scanner.start < Len(scanner.source)
    /\ scanner.source[scanner.start + 1] = "\""
    /\ \A k \in (scanner.start + 2)..Len(scanner.source) :
          scanner.source[k] # "\""

C8_UnterminatedStringToken ==
    (pc \in {"panic", "returned", "run_done"} /\ UnterminatedString) =>
        LET n == Len(scanner.tokens)
        IN  /\ pc # "panic"
            /\ n >= 2
            /\ scanner.tokens[n - 1].token_type = "String"
            /\ scanner.tokens[n - 1].lexeme =
                  SubSeq(scanner.source, scanner.start + 1,
                         Len(scanner.source))
            /\ scanner.tokens[n].token_type = "EOF"
            /\ \A i \in SpanIds :
                  spans[i].from = scanner.start => spans[i].err = 0

(***************************************************************************)
(* C9.  Every non-EOF token's lexeme is source[start..current) of its scan *)
(* step; the steps cover strictly ascending, non-overlapping positions;    *)
(* and concatenating all lexemes in emission order reproduces the source   *)
(* with only the skipped whitespace, newlines, comments and diagnosed      *)
(* characters removed.                                                     *)
(***************************************************************************)
\* a step that pushed no token and skipped a whitespace character, a
\* newline, a comment or a diagnosed character
IsRemovedSpan(i) ==
    /\ spans[i].tok = 0
    /\ \/ DispatchChar(i) \in {" ", "\r", "\n"}
       \/ spans[i].err # 0
       \/ /\ DispatchChar(i) = "/"
          /\ spans[i].to >= spans[i].from + 2
          /\ scanner.source[spans[i].from + 2] = "/"

Removed(k) ==
    \E i \in SpanIds :
        IsRemovedSpan(i) /\ spans[i].from < k /\ k <= spans[i].to

RECURSIVE Kept(_)
Kept(k) ==
    IF k = 0 THEN <<>>
    ELSE IF Removed(k) THEN Kept(k - 1)
         ELSE Append(Kept(k - 1), scanner.source[k])

RECURSIVE ConcatLexemes(_)
ConcatLexemes(n) ==
    IF n = 0 THEN <<>>
    ELSE ConcatLexemes(n - 1) \o scanner.tokens[n].lexeme

C9_LexemeRoundTrip ==
    /\ \A i \in TokenSpans :
          TokenOf(i).lexeme =
              SubSeq(scanner.source, spans[i].from + 1, spans[i].to)
    /\ \A i \in SpanIds : spans[i].from < spans[i].to
    /\ \A i, j \in SpanIds : i < j => spans[i].to <= spans[j].from
    /\ \A i, j \in TokenSpans : i < j => spans[i].tok < spans[j].tok
    /\ Returned =>
          ConcatLexemes(Len(scanner.tokens)) = Kept(Len(scanner.source))

(***************************************************************************)
(* C10.  As claimed: the reporter prints each diagnostic, in sequence      *)
(* order, as exactly the text "[Line {n}] Error: {reason}".                *)
(***************************************************************************)
\* decimal numerals of the line numbers
Numeral ==
    <<"1", "2", "3", "4", "5", "6", "7", "8", "9", "10", "11", "12", "13",
      "14", "15", "16", "17", "18", "19", "20">>

C10_ReportFormat ==
    /\ Len(output) <= Len(scanner.errors)
    /\ \A i \in 1..Len(output) :
          output[i] = "[Line " \o Numeral[scanner.errors[i].line]
                        \o "] Error: " \o scanner.errors[i].reason
    /\ pc = "run_done" => Len(output) = Len(scanner.errors)

(***************************************************************************)
(* C10, amended.  The reporter prints each diagnostic, in sequence order,  *)
(* as exactly the text "[Line {n} ] Error: {reason}", with one space       *)
(* between the line number and the closing bracket.                        *)
(***************************************************************************)
C10_ReportFormatWithSpace ==
    /\ Len(output) <= Len(scanner.errors)
    /\ \A i \in 1..Len(output) :
          output[i] = "[Line " \o Numeral[scanner.errors[i].line]
                        \o " ] Error: " \o scanner.errors[i].reason
    /\ pc = "run_done" => Len(output) = Len(scanner.errors)

C10_Witness ==
    /\ pc = "run_done"
    /\ Len(output) >= 2
    /\ output[1] = "[Line 1 ] Error: Unexpected Character"
    /\ output[2] = "[Line 2 ] Error: Unexpected Character"

(***************************************************************************)
(* C11.  In file mode the exit status is 64 when the driver is invoked     *)
(* with more than one source argument (nothing is scanned), 65 when the    *)
(* scan of the file produced at least one diagnostic, and 0 otherwise, for *)
(* every (readable) file content.                                          *)
(***************************************************************************)
C11_FileModeExitStatus ==
    (pc = "exited" /\ args >= 2 /\ (args = 2 => file.readable)) =>
        IF args > 2
        THEN exit_status = 64 /\ runs = 0
        ELSE /\ runs = 1
             /\ scanner.source = file.contents
             /\ exit_status = (IF Len(scanner.errors) # 0 THEN 65 ELSE 0)

(***************************************************************************)
(* C12.  In interactive mode the driver scans each input line exactly once *)
(* with a fresh Scanner, keeps prompting after a line that produced        *)
(* diagnostics, stops only at end-of-input, and never exits non-zero       *)
(* because of the content of a scanned line.                               *)
(***************************************************************************)
C12_InteractiveMode ==
    args = 1 =>
        /\ pc # "panic"
        /\ exit_status \in {Running, 0}
        /\ runs = nread
        /\ exit_status = 0 => nread = Len(stdin)
        /\ (pc = "scan_tokens" /\ spans = <<>>) =>
              scanner = Scanner_new(stdin[nread])
        /\ (pc = "run_done" /\ Len(scanner.errors) # 0) =>
              exit_status = Running

(***************************************************************************)
(* C13.  0 <= start <= current <= length(source) in every reachable state  *)
(* of a scan.                                                              *)
(***************************************************************************)
C13_CursorBounds ==
    /\ 0 <= scanner.start
    /\ scanner.start <= scanner.current
    /\ scanner.current <= Len(scanner.source)

C13_Witness ==
    /\ pc = "string_end"
    /\ scanner.start > 0
    /\ scanner.current = Len(scanner.source)
    /\ scanner.current > scanner.start + 1

(***************************************************************************)
(* C14.  The line counter starts at 1, is never less than 1 and never      *)
(* decreases during a scan; at every scan_token boundary it equals 1 plus  *)
(* the number of newline characters in source[0..current); when            *)
(* scan_tokens has returned, line and the EOF token's line equal 1 plus    *)
(* the number of newlines in the source (7 for the source of               *)
(* tests::scan_tokens_test, with 20 tokens).                               *)
(***************************************************************************)
LineAtBoundary ==
    /\ scanner.line >= 1
    /\ (pc = "scan_tokens" \/ Returned) =>
          scanner.line =
              1 + NewlinesBefore(scanner.source, scanner.current)
    /\ Returned =>
          /\ scanner.line =
                1 + NewlinesBefore(scanner.source, Len(scanner.source))
          /\ scanner.tokens[Len(scanner.tokens)].line = scanner.line
    /\ (Returned /\ scanner.source = ScanTokensTestSource) =>
          scanner.line = 7 /\ Len(scanner.tokens) = 20

C14_LineCounter ==
    /\ scanner.line = 1
    /\ []LineAtBoundary
    /\ [][scanner'.line >= scanner.line]_vars

C14_Witness ==
    /\ Returned
    /\ scanner.line >= 3
    /\ \E i \in TokenSpans : HasNewline(TokenOf(i).lexeme)
    /\ \E i \in SpanIds : DispatchChar(i) = "\n"

(***************************************************************************)
(* C15.  For each of `!`, `=`, `<`, `>` at dispatch: if the next character *)
(* exists and is `=`, two characters are consumed and the two-character    *)
(* kind is pushed; otherwise one character is consumed, the one-character  *)
(* kind is pushed and the following character starts the next scan step    *)
(* (`===` yields EqualEqual then Equal).                                   *)
(***************************************************************************)
OperatorSpans == {i \in SpanIds : DispatchChar(i) \in {"!", "=", "<", ">"}}

ExpectedOperatorKind(c, two) ==
    CASE c = "!" -> IF two THEN "BangEqual" ELSE "Bang"
      [] c = "=" -> IF two THEN "EqualEqual" ELSE "Equal"
      [] c = "<" -> IF two THEN "LessEqual" ELSE "Less"
      [] c = ">" -> IF two THEN "GreaterEqual" ELSE "Greater"

C15_OperatorLookahead ==
    /\ \A i \in OperatorSpans :
          LET from == spans[i].from
              c == DispatchChar(i)
              two == /\ from + 1 < Len(scanner.source)
                     /\ scanner.source[from + 2] = "="
              len == IF two THEN 2 ELSE 1
          IN  /\ spans[i].to = from + len
              /\ spans[i].tok # 0
              /\ spans[i].err = 0
              /\ spans[i].line = LineBeforeSpan(i)
              /\ TokenOf(i) =
                    Token(ExpectedOperatorKind(c, two),
                          SubSeq(scanner.source, from + 1, from + len),
                          None, LineBeforeSpan(i))
              /\ i < Len(spans) => spans[i + 1].from = from + len
    /\ (Returned /\ scanner.source = <<"=", "=", "=">>) =>
          scanner.tokens =
              << Token("EqualEqual", <<"=", "=">>, None, 1),
                 Token("Equal", <<"=">>, None, 1),
                 Token("EOF", <<>>, None, 1) >>

C15_Witness ==
    /\ Returned
    /\ scanner.source = <<"!", "!", "=", "=">>
    /\ Len(scanner.tokens) = 4
    /\ scanner.tokens[2].token_type = "BangEqual"

(***************************************************************************)
(* C16.  A `/` followed by a second `/` discards every character up to but *)
(* excluding the next newline (or up to the end of the buffer), pushing no *)
(* token and no diagnostic and leaving the line counter unchanged whatever *)
(* the comment contains; the terminating newline is then processed         *)
(* normally and increments line once.  A `/` not followed by `/` pushes    *)
(* one Slash token and consumes only that character.                       *)
(***************************************************************************)
SlashSpans == {i \in SpanIds : DispatchChar(i) = "/"}

IsCommentSpan(i) ==
    /\ DispatchChar(i) = "/"
    /\ spans[i].from + 1 < Len(scanner.source)
    /\ scanner.source[spans[i].from + 2] = "/"

\* the position (0-based) of the first newline at or after position k, or
\* the length of the source when there is none
NextNewline(src, k) ==
    CHOOSE e \in k..Len(src) :
        /\ \A j \in (k + 1)..e : src[j] # "\n"
        /\ e < Len(src) => src[e + 1] = "\n"

C16_Comment ==
    /\ \A i \in SlashSpans :
          IF IsCommentSpan(i)
          THEN /\ spans[i].tok = 0
               /\ spans[i].err = 0
               /\ spans[i].line = LineBeforeSpan(i)
               /\ spans[i].to = NextNewline(scanner.source, spans[i].from + 2)
               /\ (i < Len(spans) /\ spans[i].to < Len(scanner.source)) =>
                     /\ spans[i + 1].from = spans[i].to
                     /\ DispatchChar(i + 1) = "\n"
                     /\ spans[i + 1].to = spans[i].to + 1
                     /\ spans[i + 1].tok = 0
                     /\ spans[i + 1].line = spans[i].line + 1
          ELSE /\ spans[i].to = spans[i].from + 1
               /\ spans[i].err = 0
               /\ spans[i].tok # 0
               /\ TokenOf(i) = Token("Slash", <<"/">>, None, LineBeforeSpan(i))
    /\ pc = "scan_tokens" => Len(scanner.tokens) = Cardinality(TokenSpans)
    /\ pc \in {"comment", "scan_tokens"} =>
          Len(scanner.errors) = Cardinality({i \in SpanIds : spans[i].err # 0})
    /\ pc = "comment" =>
          /\ Len(scanner.tokens) = Cardinality(TokenSpans)
          /\ scanner.line = LineBeforeSpan(Len(spans) + 1)

C16_Witness ==
    /\ Returned
    /\ \E i \in SlashSpans :
          /\ IsCommentSpan(i)
          /\ spans[i].to < Len(scanner.source)
          /\ \E k \in (spans[i].from + 3)..spans[i].to :
                scanner.source[k] \in {"\"", "$"}

(***************************************************************************)
(* C17.  Number scanning begun at a digit pushes exactly one Number token  *)
(* whose lexeme is the maximal run of digits, extended by a single `.` and *)
(* a further maximal run of digits only if that `.` is immediately         *)
(* followed by a digit; otherwise the `.` is left and scanned as the next  *)
(* token (`1.` yields Number, Dot; `1.2.3` yields Number `1.2`, Dot,       *)
(* Number `3`; digits or digits.digits alone yield one Number on line 1).  *)
(***************************************************************************)
NumberSpans == {i \in SpanIds : DispatchChar(i) \in Digits}

\* the end (exclusive, 0-based) of the maximal run of digits from position k
DigitsEnd(src, k) ==
    CHOOSE e \in k..Len(src) :
        /\ \A j \in (k + 1)..e : src[j] \in Digits
        /\ e < Len(src) => src[e + 1] \notin Digits

HasFraction(src, d) ==
    /\ d + 1 < Len(src)
    /\ src[d + 1] = "."
    /\ src[d + 2] \in Digits

NumberEnd(src, k) ==
    LET d == DigitsEnd(src, k)
    IN  IF HasFraction(src, d) THEN DigitsEnd(src, d + 1) ELSE d

IsNumberText(src) ==
    /\ Len(src) > 0
    /\ src[1] \in Digits
    /\ NumberEnd(src, 0) = Len(src)

C17_Number ==
    /\ \A i \in NumberSpans :
          /\ spans[i].to = NumberEnd(scanner.source, spans[i].from)
          /\ spans[i].tok # 0
          /\ spans[i].err = 0
          /\ TokenOf(i).token_type = "Number"
          /\ TokenOf(i).lexeme =
                SubSeq(scanner.source, spans[i].from + 1, spans[i].to)
          /\ TokenOf(i).literal.tag = "Number"
          /\ TokenOf(i).line = LineBeforeSpan(i)
          /\ (i < Len(spans) /\ spans[i].to < Len(scanner.source)
                /\ scanner.source[spans[i].to + 1] = ".") =>
                /\ spans[i + 1].from = spans[i].to
                /\ spans[i + 1].tok # 0
                /\ TokenOf(i + 1) =
                      Token("Dot", <<".">>, None, LineBeforeSpan(i))
    /\ (Returned /\ IsNumberText(scanner.source)) =>
          /\ Len(scanner.tokens) = 2
          /\ scanner.tokens[1].token_type = "Number"
          /\ scanner.tokens[1].lexeme = scanner.source
          /\ scanner.tokens[1].line = 1
    /\ (Returned /\ scanner.source = <<"1", ".">>) =>
          /\ Len(scanner.tokens) = 3
          /\ scanner.tokens[1].lexeme = <<"1">>
          /\ scanner.tokens[2].token_type = "Dot"
    /\ (Returned /\ scanner.source = <<"1", ".", "2", ".", "3">>) =>
          /\ Len(scanner.tokens) = 4
          /\ scanner.tokens[1].lexeme = <<"1", ".", "2">>
          /\ scanner.tokens[2].token_type = "Dot"
          /\ scanner.tokens[3].lexeme = <<"3">>
          /\ scanner.tokens[3].token_type = "Number"

C17_Witness ==
    /\ Returned
    /\ scanner.source = <<"1", ".", "2", ".", "3">>
    /\ Len(scanner.tokens) = 4

(***************************************************************************)
(* C18.  The letter `t` is treated as whitespace only when it is the       *)
(* character at which a scan step begins: it is consumed with no token, no *)
(* diagnostic and no line change (`test` is pushed as Identifier `est`,    *)
(* `this` and `true` are not pushed as keywords), whereas a `t` inside an  *)
(* identifier run already begun, a string or a comment is not swallowed.   *)
(***************************************************************************)
LetterTSpans == {i \in SpanIds : DispatchChar(i) = "t"}

C18_LetterT ==
    /\ \A i \in LetterTSpans :
          /\ spans[i].tok = 0
          /\ spans[i].err = 0
          /\ spans[i].to = spans[i].from + 1
          /\ spans[i].line = LineBeforeSpan(i)
    /\ \A i \in SpanIds :
          \A k \in (spans[i].from + 2)..spans[i].to :
              scanner.source[k] = "t" =>
                  \/ /\ spans[i].tok # 0
                     /\ TokenOf(i).lexeme[k - spans[i].from] = "t"
                     /\ Len(TokenOf(i).lexeme) = spans[i].to - spans[i].from
                  \/ IsCommentSpan(i)
    /\ \A i \in TokenSpans :
          (TokenOf(i).token_type \in IdentifierKinds
              /\ spans[i].to < Len(scanner.source)) =>
                  scanner.source[spans[i].to + 1] # "t"
    /\ (Returned /\ scanner.source = <<"t", "e", "s", "t">>) =>
          scanner.tokens =
              << Token("Identifier", <<"e", "s", "t">>, None, 1),
                 Token("EOF", <<>>, None, 1) >>
    /\ (Returned /\ Len(scanner.source) > 0 /\ scanner.source[1] = "t") =>
          scanner.tokens[1].token_type \notin {"This", "True"}

C18_Witness ==
    /\ Returned
    /\ scanner.source = <<"t", "e", "s", "t">>
    /\ Len(scanner.tokens) = 2

(***************************************************************************)
(* C19.  Space and carriage return at dispatch push no token and no        *)
(* diagnostic and leave line unchanged, but every tab reached at dispatch  *)
(* pushes an "Unexpected Character" diagnostic, so a source indented with  *)
(* tabs has a non-empty diagnostic list and file mode exits with 65.       *)
(***************************************************************************)
BlankSpans == {i \in SpanIds : DispatchChar(i) \in {" ", "\r"}}

TabSpans == {i \in SpanIds : DispatchChar(i) = "\t"}

C19_Whitespace ==
    /\ \A i \in BlankSpans :
          /\ spans[i].tok = 0
          /\ spans[i].err = 0
          /\ spans[i].to = spans[i].from + 1
          /\ spans[i].line = LineBeforeSpan(i)
    /\ \A i \in TabSpans :
          /\ spans[i].tok = 0
          /\ spans[i].err # 0
          /\ spans[i].to = spans[i].from + 1
          /\ scanner.errors[spans[i].err] =
                [line |-> LineBeforeSpan(i), reason |-> "Unexpected Character"]
    /\ Len(scanner.errors) >= Cardinality(TabSpans)
    /\ (pc = "exited" /\ args = 2 /\ exit_status # PanicStatus
          /\ TabSpans # {}) => exit_status = 65

C19_Witness ==
    /\ pc = "exited"
    /\ args = 2
    /\ exit_status = 65
    /\ scanner.source = <<"\t", "i", "f", " ", "\r", "\n", "\t", "\t", "x">>
    /\ Len(scanner.errors) = 3
    /\ \E i \in BlankSpans : TRUE
====
